---- MODULE Spec2Model ----
(***************************************************************************)
(* Simple Command Parser (simple_command_parser.c): the command registry   *)
(* (scp_init, scp_add_command), the line reader input(), the lookup        *)
(* find_command() and the dispatch loop scp_parse().                       *)
(*                                                                         *)
(* Strings are sequences of character codes (ASCII), so that strcmp is a   *)
(* comparison of characters and 'a' and 'A' differ.  A char pointer is     *)
(* either NULL or such a sequence.                                         *)
(***************************************************************************)
EXTENDS Integers, Sequences, FiniteSets, TLC

(***************************************************************************)
(* Program constants.                                                      *)
(***************************************************************************)
MAX_CMD_STR == 11

MAX_ABBR_STR == 5

MAX_HELP_STR == 41

MAX_INPUT_BUFFER == 128

MAX_ARGC == 6

(***************************************************************************)
(* Bounds of the model.                                                    *)
(***************************************************************************)
\* user commands registered with scp_add_command
MaxCmds == 2

\* the line counter of scp_parse is followed up to this value
MaxCount == 2

\* argument tokens typed after the command word: 0..MaxArgs
MaxArgs == 7

\* a long line has up to MAX_INPUT_BUFFER + MaxOver characters before return
MaxOver == 2

(***************************************************************************)
(* Characters.                                                             *)
(***************************************************************************)
CH_BS == 8

CH_LF == 10

CH_CR == 13

CH_SPACE == 32

CH_COMMA == 44

CH_PERIOD == 46

CH_DEL == 127

\* the string " .," handed to strtok
DELIMS == {CH_SPACE, CH_PERIOD, CH_COMMA}

\* a null char pointer; no character has code -1
NULL == <<-1>>

\* a null function pointer / a null command_t pointer
NULLFUNC == "NULL"

Rep(c, n) == [i \in 1..n |-> c]

\* string literals of the source
S_help == <<104, 101, 108, 112>>
S_h == <<104>>
S_end == <<101, 110, 100>>
S_add == <<97, 100, 100>>
S_a == <<97>>
S_sub == <<115, 117, 98>>
S_s == <<115>>
\* "Lists all commands available."
S_help_help ==
    <<76, 105, 115, 116, 115, 32, 97, 108, 108, 32, 99, 111, 109, 109, 97, 110, 100, 115, 32, 97, 118, 97, 105, 108, 97, 98, 108, 101, 46>>
\* "Exit the parser."
S_end_help ==
    <<69, 120, 105, 116, 32, 116, 104, 101, 32, 112, 97, 114, 115, 101, 114, 46>>
\* "Add <P1> to <P2> [... to <P5>]"
S_add_help ==
    <<65, 100, 100, 32, 60, 80, 49, 62, 32, 116, 111, 32, 60, 80, 50, 62, 32, 91, 46, 46, 46, 32, 116, 111, 32, 60, 80, 53, 62, 93>>
\* "Subtract <P2> from <P1>"
S_sub_help ==
    <<83, 117, 98, 116, 114, 97, 99, 116, 32, 60, 80, 50, 62, 32, 102, 114, 111, 109, 32, 60, 80, 49, 62>>

\* strlen of a string (of a null pointer: see NullReads)
strlen(s) == Len(s)

\* strcmp(a, b) == 0
streq(a, b) == a = b

(***************************************************************************)
(* new_command: a command_t node. The list links the nodes in the order of *)
(* the sequence cmd_list.head; `next` is the successor in it.              *)
(***************************************************************************)
new_command(cmd_str, abbr_str, help_str, min_arg, max_arg, func) ==
    [cmd_str |-> cmd_str, abbr_str |-> abbr_str, help_str |-> help_str,
     min_arg |-> min_arg, max_arg |-> max_arg, func |-> func]

help_cmd == new_command(S_help, S_h, S_help_help, 0, 0, "help_cmd_func")

end_cmd == new_command(S_end, S_end, S_end_help, 0, 0, "end_cmd_func")

VARIABLES
    pc,          \* "caller": between API calls; "parsing": inside the loop of
                 \* scp_parse; "aborted": an assert failed; "crashed": undefined
                 \* behaviour ended the process
    cmd_list,    \* [head: sequence of command_t, size: int]
    end_parsing, \* the stop flag
    do_not_exit, \* argument of the scp_init call that succeeded (0 before)
    last_op,     \* the API call made last and how it ended
    count,       \* scp_parse: line counter
    stream,      \* characters typed and not yet read by GETCH
    line,        \* scp_parse: what input() did for the line read last (read:
                 \* the characters GETCH returned to it)
    token,       \* scp_parse: first token of the line (NULL if none)
    command,     \* scp_parse: index in cmd_list.head of the descriptor found, 0 for NULL
    argc,        \* scp_parse: argument count
    call,        \* the handler invocation of this iteration, or NoCall
    out,         \* the Out[n] report printed for this iteration, or NoOut
    listing,     \* what help_cmd_func printed last
    looked,      \* find_command was called in this iteration
    prompt       \* the n of the In [n]> prompt printed last

vars == <<pc, cmd_list, end_parsing, do_not_exit, last_op, count, stream, line,
          token, command, argc, call, out, listing, looked, prompt>>

NoCall == [func |-> NULLFUNC, argc |-> 0, argv |-> <<>>, ret |-> 0]

NoOut == [kind |-> "none", n |-> 0, val |-> 0]

NoLine == [buf |-> <<>>, length |-> 0, writes |-> {}, consumed |-> 0,
           echo |-> <<>>, last |-> 0, read |-> <<>>]

NoOp == [op |-> "none", args |-> <<>>, result |-> "none", before |-> <<>>]

(***************************************************************************)
(* The calls of scp_add_command that are tried.                            *)
(***************************************************************************)
AddArgs(c, a, h, mn, mx, f) ==
    [cmd_str |-> c, abbr_str |-> a, help_str |-> h, min_arg |-> mn,
     max_arg |-> mx, func |-> f]

\* the "add" command of parser_example.c
A_add == AddArgs(S_add, S_a, S_add_help, 2, 5, "add_cmd_func")

\* valid calls with a non-null abbreviation
GoodCalls ==
    { A_add,
      \* its name is the abbreviation of "help", its abbreviation the name of
      \* "end"; min_arg = max_arg, more than MAX_ARGC
      AddArgs(S_h, S_end, S_sub_help, 7, 7, "sub_cmd_func"),
      \* the longest strings allowed; max_arg = MAX_ARGC
      AddArgs(Rep(120, 10), Rep(121, 4), Rep(122, 40), 0, 6, "add_cmd_func") }

\* calls without an abbreviation
NullAbbrCalls ==
    { AddArgs(<<120>>, NULL, S_add_help, 0, 0, "add_cmd_func"),
      AddArgs(S_add, NULL, Rep(122, 41), 0, 0, "add_cmd_func"),
      AddArgs(S_add, NULL, S_add_help, 3, 2, "add_cmd_func") }

\* calls that break one rule each
BadCalls ==
    { AddArgs(NULL, S_a, S_add_help, 2, 5, "add_cmd_func"),
      AddArgs(S_add, S_a, NULL, 2, 5, "add_cmd_func"),
      AddArgs(S_add, S_a, S_add_help, 2, 5, NULLFUNC),
      AddArgs(S_add, S_a, S_add_help, 3, 2, "add_cmd_func"),
      AddArgs(Rep(120, 11), S_a, S_add_help, 2, 5, "add_cmd_func"),
      AddArgs(S_add, Rep(121, 5), S_add_help, 2, 5, "add_cmd_func"),
      AddArgs(S_add, S_a, Rep(122, 41), 2, 5, "add_cmd_func") }

AddCalls == GoodCalls \cup NullAbbrCalls \cup BadCalls

\* scp_init is called with these values of do_not_exit
InitArgs == {0, 1}

(***************************************************************************)
(* Reading through a null char pointer is undefined: the process faults,   *)
(* or the read yields whatever lies at address 0.  fault is the fault;     *)
(* otherwise the bytes there are read as the string str (empty, one that   *)
(* happens to spell a command, or a longer one).                           *)
(***************************************************************************)
NullRead(fault, str) == [fault |-> fault, str |-> str]

NullReads ==
    { NullRead(TRUE, <<>>),
      NullRead(FALSE, <<>>),
      NullRead(FALSE, S_h),
      NullRead(FALSE, S_end),
      NullRead(FALSE, Rep(1, MAX_ABBR_STR)) }

(***************************************************************************)
(* scp_init                                                                *)
(***************************************************************************)
\* an scp_init that adds the end command whatever do_not_exit is
scp_init_list_always_end(list, d) ==
    [head |-> <<help_cmd, end_cmd>>, size |-> list.size + 2]

\* the list and size scp_init builds
scp_init_list(list, d) ==
    IF d = 0
    THEN [head |-> <<help_cmd, end_cmd>>, size |-> list.size + 2]
    ELSE [head |-> <<help_cmd>>, size |-> list.size + 1]

scp_init(d) ==
    /\ pc = "caller"
    /\ IF cmd_list.head # <<>>
       THEN \* assert(cmd_list.head == NULL) fails
            /\ pc' = "aborted"
            /\ last_op' = [op |-> "scp_init", args |-> d, result |-> "assert",
                           before |-> cmd_list]
            /\ UNCHANGED <<cmd_list, do_not_exit>>
       ELSE /\ cmd_list' = scp_init_list(cmd_list, d)
            /\ do_not_exit' = d
            /\ last_op' = [op |-> "scp_init", args |-> d, result |-> "ok",
                           before |-> cmd_list]
            /\ pc' = pc
    /\ UNCHANGED <<end_parsing, count, stream, line, token, command, argc,
                   call, out, listing, looked, prompt>>

(***************************************************************************)
(* scp_add_command                                                         *)
(***************************************************************************)
\* the asserts of lines 557-561, in order
args_valid(a) ==
    /\ a.cmd_str # NULL
    /\ a.help_str # NULL
    /\ a.min_arg <= a.max_arg
    /\ a.func # NULLFUNC

\* a length check that is off by one
cmd_len_ok_off_by_one(a) == strlen(a.cmd_str) <= MAX_CMD_STR

\* assert(strlen(cmd_str) < MAX_CMD_STR)
cmd_len_ok(a) == strlen(a.cmd_str) < MAX_CMD_STR

\* assert(strlen(abbr_str) < MAX_ABBR_STR); ub is what the read of a null
\* abbr_str yields
abbr_len(a, ub) == IF a.abbr_str = NULL THEN strlen(ub.str) ELSE strlen(a.abbr_str)

\* assert(strlen(help_str) < MAX_HELP_STR)
help_len_ok(a) == strlen(a.help_str) < MAX_HELP_STR

\* a registration that does not check that scp_init has run
scp_add_command_result_no_init(list, a, ub) ==
    IF ~args_valid(a) THEN "assert"
    ELSE IF ~cmd_len_ok(a) THEN "assert"
    ELSE IF a.abbr_str = NULL /\ ub.fault THEN "crash"
    ELSE IF ~(abbr_len(a, ub) < MAX_ABBR_STR) THEN "assert"
    ELSE IF ~help_len_ok(a) THEN "assert"
    ELSE "ok"

\* how the call ends: "assert", "crash" or "ok"
scp_add_command_result(list, a, ub) ==
    IF list.head = <<>> THEN "assert"
    ELSE IF ~args_valid(a) THEN "assert"
    ELSE IF ~cmd_len_ok(a) THEN "assert"
    ELSE IF a.abbr_str = NULL /\ ub.fault THEN "crash"
    ELSE IF ~(abbr_len(a, ub) < MAX_ABBR_STR) THEN "assert"
    ELSE IF ~help_len_ok(a) THEN "assert"
    ELSE "ok"

\* an insertion right after the head of the list instead of at its end
list_insert_after_head(list, a) ==
    [head |-> <<list.head[1],
                new_command(a.cmd_str, a.abbr_str, a.help_str, a.min_arg,
                            a.max_arg, a.func)>> \o Tail(list.head),
     size |-> list.size + 1]

\* the new node goes to the end of the list
list_append(list, a) ==
    [head |-> Append(list.head,
                     new_command(a.cmd_str, a.abbr_str, a.help_str, a.min_arg,
                                 a.max_arg, a.func)),
     size |-> list.size + 1]

\* the nodes added by scp_add_command
user_cmds(list) ==
    {i \in 1..Len(list.head) :
        list.head[i].func \notin {"help_cmd_func", "end_cmd_func"}}

scp_add_command(a, ub) ==
    /\ pc = "caller"
    /\ Cardinality(user_cmds(cmd_list)) < MaxCmds
    /\ LET r == scp_add_command_result(cmd_list, a, ub) IN
       /\ last_op' = [op |-> "scp_add_command", args |-> a, result |-> r,
                      before |-> cmd_list]
       /\ pc' = CASE r = "ok" -> pc
                  [] r = "assert" -> "aborted"
                  [] OTHER -> "crashed"
       /\ cmd_list' = IF r = "ok" THEN list_append(cmd_list, a) ELSE cmd_list
    /\ UNCHANGED <<end_parsing, do_not_exit, count, stream, line, token,
                   command, argc, call, out, listing, looked, prompt>>

(***************************************************************************)
(* input(in_buffer, len) reading the characters src.  The state of its     *)
(* loop: pos is the next character of src, kept is in_buffer[0 .. ptr-1]   *)
(* with ptr = Len(kept), writes the indices of in_buffer written so far,   *)
(* echo what was printed.  input_step is one evaluation of the loop        *)
(* condition and, when it holds, of the body; when it fails the string is  *)
(* terminated and the loop is done.                                        *)
(***************************************************************************)
\* a loop that does not take 127 for a delete
input_step_no_del(st) ==
    IF st.done THEN st
    ELSE
    LET ptr == Len(st.kept)
        c == st.src[st.pos]
        w == st.writes \cup {ptr}
    IN  IF c # CH_CR /\ c # CH_LF /\ ptr < st.len
        THEN IF c = CH_BS
             THEN IF ptr > 0
                  THEN [st EXCEPT !.pos = @ + 1, !.writes = w,
                                  !.kept = SubSeq(@, 1, ptr - 1),
                                  !.echo = @ \o <<CH_BS, CH_SPACE, CH_BS>>]
                  ELSE [st EXCEPT !.pos = @ + 1, !.writes = w]
             ELSE [st EXCEPT !.pos = @ + 1, !.writes = w,
                             !.kept = Append(@, c), !.echo = Append(@, c)]
        ELSE [st EXCEPT !.writes = w, !.done = TRUE]

input_step(st) ==
    IF st.done THEN st
    ELSE
    LET ptr == Len(st.kept)
        c == st.src[st.pos]          \* *ptr = GETCH()
        w == st.writes \cup {ptr}
    IN  IF c # CH_CR /\ c # CH_LF /\ ptr < st.len
        THEN IF c = CH_BS \/ c = CH_DEL
             THEN IF ptr > 0
                  THEN [st EXCEPT !.pos = @ + 1, !.writes = w,
                                  !.kept = SubSeq(@, 1, ptr - 1),
                                  !.echo = @ \o <<CH_BS, CH_SPACE, CH_BS>>]
                  ELSE [st EXCEPT !.pos = @ + 1, !.writes = w]
             ELSE [st EXCEPT !.pos = @ + 1, !.writes = w,
                             !.kept = Append(@, c), !.echo = Append(@, c)]
        ELSE \* *ptr = 0
             [st EXCEPT !.writes = w, !.done = TRUE]

\* the loop, run for up to 2^n rounds: every round but the last reads one
\* character, and no line typed here has more than 2^8 characters
RECURSIVE input_loop(_, _)
input_loop(st, n) ==
    IF n = 0 THEN input_step(st)
    ELSE LET half == input_loop(st, n - 1)
         IN  IF half.done THEN half ELSE input_loop(half, n - 1)

input(src, len) ==
    LET st == input_loop([src |-> src, pos |-> 1, kept |-> <<>>, writes |-> {},
                          echo |-> <<>>, len |-> len, done |-> FALSE], 8)
    IN  \* return (int)(ptr - in_buffer)
        [buf |-> st.kept, length |-> Len(st.kept), writes |-> st.writes,
         consumed |-> st.pos, echo |-> st.echo, last |-> st.src[st.pos],
         read |-> SubSeq(st.src, 1, st.pos)]

(***************************************************************************)
(* strtok(s, " .,") on the string s from the saved position p: the token   *)
(* (NULL if none) and the position saved for the next call.                *)
(***************************************************************************)
\* the first position from p on where the character is (in = TRUE) or is not
\* (in = FALSE) a delimiter; Len(s) + 1, the terminating 0, if there is none
span(s, p, in) ==
    IF \E i \in p..Len(s) : (s[i] \in DELIMS) = in
    THEN CHOOSE i \in p..Len(s) :
            /\ (s[i] \in DELIMS) = in
            /\ \A j \in p..(i - 1) : (s[j] \in DELIMS) # in
    ELSE Len(s) + 1

strtok(s, p) ==
    LET q == span(s, p, FALSE)
        e == span(s, q, TRUE)
    IN  IF q > Len(s)
        THEN [tok |-> NULL, next |-> q]
        ELSE [tok |-> SubSeq(s, q, e - 1),
              next |-> IF e > Len(s) THEN e ELSE e + 1]

(***************************************************************************)
(* find_command: index of the first node that matches, 0 for NULL.         *)
(***************************************************************************)
\* a lookup that forgets the abbreviation
cmd_matches_name_only(name, cmd) == streq(name, cmd.cmd_str)

cmd_matches(name, cmd) ==
    \/ streq(name, cmd.cmd_str)
    \/ (cmd.abbr_str # NULL /\ streq(name, cmd.abbr_str))

RECURSIVE find_from(_, _, _)
find_from(list, name, i) ==
    IF i > Len(list.head) THEN 0
    ELSE IF cmd_matches(name, list.head[i]) THEN i
    ELSE find_from(list, name, i + 1)

\* a lookup that returns the node registered last among those that match
find_command_last(list, name) ==
    LET M == {j \in 1..Len(list.head) : cmd_matches(name, list.head[j])}
    IN  IF M = {} THEN 0 ELSE CHOOSE j \in M : \A k \in M : k <= j

find_command(list, name) == find_from(list, name, 1)

(***************************************************************************)
(* The argument loop of scp_parse (lines 687-694).                         *)
(***************************************************************************)
\* an argument loop that stores one token more than argv holds
RECURSIVE collect_args_one_more(_, _, _, _, _)
collect_args_one_more(s, p, n, av, calls) ==
    LET t == strtok(s, p) IN
    IF t.tok # NULL /\ n <= MAX_ARGC
    THEN collect_args_one_more(s, t.next, n + 1, Append(av, t.tok), calls + 1)
    ELSE [argc |-> n, argv |-> av, strtoks |-> calls + 1, last |-> t.tok]

RECURSIVE collect_args(_, _, _, _, _)
collect_args(s, p, n, av, calls) ==
    LET t == strtok(s, p) IN
    IF t.tok # NULL /\ n < MAX_ARGC
    THEN collect_args(s, t.next, n + 1, Append(av, t.tok), calls + 1)
    ELSE [argc |-> n, argv |-> av, strtoks |-> calls + 1, last |-> t.tok]

(***************************************************************************)
(* The command functions.                                                  *)
(***************************************************************************)
IsDigit(c) == c >= 48 /\ c <= 57

RECURSIVE atoi_digits(_, _, _)
atoi_digits(s, i, acc) ==
    IF i <= Len(s) /\ IsDigit(s[i])
    THEN atoi_digits(s, i + 1, 10 * acc + (s[i] - 48))
    ELSE acc

atoi(s) ==
    IF s # <<>> /\ s[1] = 45 THEN 0 - atoi_digits(s, 2, 0)
    ELSE IF s # <<>> /\ s[1] = 43 THEN atoi_digits(s, 2, 0)
    ELSE atoi_digits(s, 1, 0)

RECURSIVE add_cmd_func(_, _)
add_cmd_func(n, av) ==
    IF n = 0 THEN 0 ELSE add_cmd_func(n - 1, av) + atoi(av[n])

RECURSIVE sub_rest(_, _)
sub_rest(n, av) ==
    IF n <= 1 THEN 0 ELSE sub_rest(n - 1, av) + atoi(av[n])

sub_cmd_func(n, av) ==
    IF n >= 1 THEN atoi(av[1]) - sub_rest(n, av) ELSE 0

\* what help_cmd_func prints: one row per node, in list order
help_cmd_func(list) ==
    [i \in 1..Len(list.head) |->
        <<list.head[i].cmd_str, list.head[i].abbr_str, list.head[i].help_str>>]

\* a stop flag that any command function sets
end_cmd_func_any_handler(f, flag) == IF f # NULLFUNC THEN 1 ELSE flag

\* an end command that leaves the stop flag alone
end_cmd_func_no_stop(f, flag) == flag

\* end_cmd_func: the stop flag after the command function f has run
end_cmd_func(f, flag) == IF f = "end_cmd_func" THEN 1 ELSE flag

\* a help command that returns 0, as its header comment says
func_return_help_zero(f, n, av) ==
    CASE f = "help_cmd_func" -> 0
      [] f = "end_cmd_func" -> 1
      [] f = "add_cmd_func" -> add_cmd_func(n, av)
      [] f = "sub_cmd_func" -> sub_cmd_func(n, av)

\* the value a command function returns
func_return(f, n, av) ==
    CASE f = "help_cmd_func" -> 1
      [] f = "end_cmd_func" -> 1
      [] f = "add_cmd_func" -> add_cmd_func(n, av)
      [] f = "sub_cmd_func" -> sub_cmd_func(n, av)

\* printf("%s") of a null abbr_str in help_cmd_func is a read through NULL
has_null_abbr(list) ==
    \E i \in 1..Len(list.head) : list.head[i].abbr_str = NULL

(***************************************************************************)
(* scp_parse, lines 696-714: the check of the argument count.              *)
(***************************************************************************)
\* a check that forgets the upper bound
arg_check_no_max(n, cmd) ==
    IF n < cmd.min_arg THEN "toofew" ELSE "result"

arg_check(n, cmd) ==
    IF n < cmd.min_arg THEN "toofew"
    ELSE IF n > cmd.max_arg THEN "toomany"
    ELSE "result"

(***************************************************************************)
(* scp_parse, lines 683-719, for a line of length > 0.  The calls of       *)
(* strtok do not depend on the registry: scan(s) is the first token of s   *)
(* and what the argument loop makes of the rest.                           *)
(***************************************************************************)
scan(s) ==
    LET t == strtok(s, 1)
    IN  [first |-> t.tok, args |-> collect_args(s, t.next, 0, <<>>, 0)]

(***************************************************************************)
(* The values the locals get, the command function called and the report   *)
(* printed.  sc is the scan of the line, a0 is argc before, ub what a read *)
(* through a null token yields.                                            *)
(***************************************************************************)
dispatch(list, sc, a0, ub) ==
    LET name == IF sc.first = NULL THEN ub.str ELSE sc.first
        idx == find_command(list, name)
    IN  IF idx = 0
        THEN [token |-> sc.first, command |-> 0, argc |-> a0, call |-> NoCall,
              kind |-> "unknown", val |-> 0, strtoks |-> 1]
        ELSE LET ca == sc.args
                 cmd == list.head[idx]
                 k == arg_check(ca.argc, cmd)
             IN  [token |-> sc.first, command |-> idx, argc |-> ca.argc,
                  call |-> IF k = "result"
                           THEN [func |-> cmd.func, argc |-> ca.argc,
                                 argv |-> ca.argv,
                                 ret |-> func_return(cmd.func, ca.argc, ca.argv)]
                           ELSE NoCall,
                  kind |-> k,
                  val |-> CASE k = "toofew" -> cmd.min_arg
                            [] k = "toomany" -> cmd.max_arg
                            [] OTHER -> func_return(cmd.func, ca.argc, ca.argv),
                  strtoks |-> 1 + ca.strtoks]

(***************************************************************************)
(* The lines typed at the console.                                         *)
(***************************************************************************)
S_Add == <<65, 100, 100>>

\* words typed with any number of arguments, and with few
Words == {S_end, S_add, Rep(120, 10)}

FewWords == {S_help, S_h, S_a, S_Add, <<120>>}

\* the n-th argument is the digit n
RECURSIVE TypedArgs(_)
TypedArgs(n) ==
    IF n = 0 THEN <<>> ELSE TypedArgs(n - 1) \o <<CH_SPACE, 48 + n>>

ArgCounts == {0, 1, 2} \cup ((MAX_ARGC - 1)..MaxArgs)

CommandLines ==
    {w \o TypedArgs(n) \o <<CH_CR>> : w \in Words, n \in ArgCounts}
    \cup {w \o TypedArgs(n) \o <<CH_LF>> : w \in FewWords, n \in {0, 2}}

EditedLines ==
    { <<CH_CR>>, <<CH_LF>>, <<CH_SPACE, CH_CR>>, <<CH_COMMA, CH_LF>>,
      <<CH_PERIOD, CH_SPACE, CH_CR>>,
      <<CH_BS, CH_CR>>,
      <<120, CH_DEL, CH_LF>>,
      <<CH_SPACE>> \o S_end \o <<CH_COMMA, CH_CR>>,
      S_end \o <<9, CH_CR>>,   \* a tab is no delimiter
      <<101, 110, 120, CH_BS, 100, CH_CR>>,
      S_add \o <<CH_COMMA, CH_SPACE, 50, CH_PERIOD, 51, CH_LF>> }

LongLines ==
    {Rep(120, n) \o <<CH_CR>> :
        n \in (MAX_INPUT_BUFFER - 1)..(MAX_INPUT_BUFFER + MaxOver)}

Lines == CommandLines \cup EditedLines \cup LongLines

\* what is left in the console stream when input() returns
unread(src, r) == SubSeq(src, r.consumed + 1, Len(src))

\* what a long line leaves unread is read as the next line
Leftovers ==
    {unread(l, input(l, MAX_INPUT_BUFFER)) : l \in LongLines} \ {<<>>}

Sources == Lines \cup Leftovers

\* input(strbuff, MAX_INPUT_BUFFER) and the scan of strbuff, per source
ReadOf == [src \in Sources |-> input(src, MAX_INPUT_BUFFER)]

ScanOf == [src \in Sources |-> scan(ReadOf[src].buf)]

\* a write past strbuff[MAX_INPUT_BUFFER - 1]
overflows(r, len) == \E i \in r.writes : i >= len

(***************************************************************************)
(* scp_parse: the call, up to the first test of the loop condition.        *)
(***************************************************************************)
\* an scp_parse that clears the stop flag when it is called
scp_parse_call_resets(ub) ==
    /\ pc = "caller"
    /\ last_op' = [op |-> "scp_parse", args |-> <<>>, result |-> "loop",
                   before |-> cmd_list]
    /\ count' = 1
    /\ argc' = 0
    /\ end_parsing' = 0
    /\ listing' = help_cmd_func(cmd_list)
    /\ pc' = "parsing"
    /\ UNCHANGED <<cmd_list, do_not_exit, stream, line, token, command, call,
                   out, looked, prompt>>

scp_parse_call(ub) ==
    /\ pc = "caller"
    /\ last_op' = [op |-> "scp_parse", args |-> <<>>,
                   result |-> IF end_parsing = 0 THEN "loop" ELSE "returned",
                   before |-> cmd_list]
    /\ count' = 1
    /\ argc' = 0
    /\ IF has_null_abbr(cmd_list) /\ ub.fault
       THEN /\ pc' = "crashed"
            /\ UNCHANGED listing
       ELSE /\ listing' = help_cmd_func(cmd_list)
            /\ pc' = IF end_parsing = 0 THEN "parsing" ELSE "caller"
    /\ UNCHANGED <<cmd_list, end_parsing, do_not_exit, stream, line, token,
                   command, call, out, looked, prompt>>

(***************************************************************************)
(* scp_parse: one iteration of the loop, lines 673-722.  The locals token,  *)
(* command and argc are written before they are read in every iteration;   *)
(* the model holds what this iteration assigned, and NULL, 0 and 0 (the    *)
(* initial argc) where it assigned nothing.  src is what                   *)
(* GETCH delivers: the characters pending, or else a line the user types.  *)
(* The write past the end of strbuff is undefined: it is harmless or fatal *)
(* (smash).  ub resolves the read through a null token or abbreviation.    *)
(***************************************************************************)
scp_parse_crash(r, tok, looks, cmd, n) ==
    /\ pc' = "crashed"
    /\ line' = r
    /\ looked' = looks
    /\ token' = tok
    /\ command' = cmd
    /\ argc' = n
    /\ call' = NoCall
    /\ out' = NoOut
    /\ UNCHANGED <<end_parsing, count, listing>>

\* an iteration that counts every line, the empty ones too
scp_parse_line_counts_every_line(src) ==
    /\ pc = "parsing"
    /\ count < MaxCount
    /\ prompt' = count
    /\ stream' = unread(src, ReadOf[src])
    /\ line' = ReadOf[src]
    /\ looked' = FALSE
    /\ count' = count + 1
    /\ UNCHANGED <<pc, cmd_list, end_parsing, do_not_exit, last_op, token,
                   command, argc, call, out, listing>>

\* an iteration whose handler registers a command
scp_parse_line_handler_registers(src) ==
    /\ pc = "parsing"
    /\ count < MaxCount
    /\ ReadOf[src].length # 0
    /\ prompt' = count
    /\ stream' = unread(src, ReadOf[src])
    /\ line' = ReadOf[src]
    /\ looked' = TRUE
    /\ token' = ScanOf[src].first
    /\ count' = count + 1
    /\ cmd_list' = list_append(cmd_list, A_add)
    /\ UNCHANGED <<pc, end_parsing, do_not_exit, last_op, command, argc, call,
                   out, listing>>

scp_parse_line(src) ==
    /\ pc = "parsing"
    /\ count < MaxCount
    /\ \E r \in {ReadOf[src]}, sc \in {ScanOf[src]} :
       /\ prompt' = count
       /\ stream' = unread(src, r)
       /\ \/ /\ overflows(r, MAX_INPUT_BUFFER)
             /\ scp_parse_crash(r, NULL, FALSE, 0, 0)
          \/ /\ r.length = 0
             \* continue
             /\ line' = r
             /\ looked' = FALSE
             /\ token' = NULL
             /\ command' = 0
             /\ argc' = 0
             /\ call' = NoCall
             /\ out' = NoOut
             /\ UNCHANGED <<pc, end_parsing, count, listing>>
          \/ /\ r.length # 0
             /\ \E ub \in IF sc.first = NULL \/ has_null_abbr(cmd_list)
                           THEN NullReads ELSE {NullRead(FALSE, <<>>)} :
                \E d \in {dispatch(cmd_list, sc, 0, ub)} :
                LET helped == d.call.func = "help_cmd_func"
                IN  IF sc.first = NULL /\ ub.fault
                    THEN \* inside find_command
                         scp_parse_crash(r, sc.first, TRUE, 0, 0)
                    ELSE IF helped /\ has_null_abbr(cmd_list) /\ ub.fault
                    THEN \* inside help_cmd_func
                         scp_parse_crash(r, sc.first, TRUE, d.command, d.argc)
                    ELSE /\ line' = r
                         /\ looked' = TRUE
                         /\ token' = d.token
                         /\ command' = d.command
                         /\ argc' = d.argc
                         /\ call' = d.call
                         /\ out' = [kind |-> d.kind, n |-> count, val |-> d.val]
                         /\ listing' = IF helped THEN help_cmd_func(cmd_list)
                                       ELSE listing
                         /\ end_parsing' = end_cmd_func(d.call.func, end_parsing)
                         /\ count' = count + 1
                         /\ pc' = IF end_parsing' = 0 THEN "parsing" ELSE "caller"
    /\ UNCHANGED <<cmd_list, do_not_exit, last_op>>

\* GETCH delivers what is pending, or else waits for the user to type a line
scp_parse_iteration ==
    \E src \in IF stream = <<>> THEN Lines ELSE {stream} : scp_parse_line(src)

Init ==
    /\ pc = "caller"
    /\ cmd_list = [head |-> <<>>, size |-> 0]
    /\ end_parsing = 0
    /\ do_not_exit = 0
    /\ last_op = NoOp
    /\ count = 0
    /\ stream = <<>>
    /\ line = NoLine
    /\ token = NULL
    /\ command = 0
    /\ argc = 0
    /\ call = NoCall
    /\ out = NoOut
    /\ listing = <<>>
    /\ looked = FALSE
    /\ prompt = 0

Next ==
    \/ \E d \in InitArgs : scp_init(d)
    \/ \E a \in AddCalls, ub \in NullReads : scp_add_command(a, ub)
    \/ \E ub \in NullReads : scp_parse_call(ub)
    \/ scp_parse_iteration

Spec == Init /\ [][Next]_vars

(***************************************************************************)
(* Properties.                                                             *)
(***************************************************************************)
\* the positions of s where a token starts: a character that is no delimiter,
\* at the start of s or after a delimiter
TokenStarts(s) ==
    {i \in 1..Len(s) : s[i] \notin DELIMS /\ (i = 1 \/ s[i - 1] \in DELIMS)}

\* the number of tokens of s after the first
ArgTokens(s) == Cardinality(TokenStarts(s)) - 1

\* scp_init has run
Initialised == cmd_list.head # <<>>

\* the loop of scp_parse has read a line, and no API call was made since;
\* the registry is the one the loop started with
IterDone ==
    /\ last_op.op = "scp_parse"
    /\ last_op.result = "loop"
    /\ line # NoLine

\* the nodes of the registry whose name or (non-null) abbreviation equals t
Matching(t) ==
    {i \in 1..Len(cmd_list.head) :
        \/ cmd_list.head[i].cmd_str = t
        \/ (cmd_list.head[i].abbr_str # NULL /\ cmd_list.head[i].abbr_str = t)}

C2_ArgBoundsEveryN ==
    (IterDone /\ looked /\ token # NULL /\ command # 0 /\ pc # "crashed") =>
        LET n == ArgTokens(line.buf)
            cmd == cmd_list.head[command]
        IN  /\ (call # NoCall) <=> (cmd.min_arg <= n /\ n <= cmd.max_arg)
            /\ n < cmd.min_arg => out.kind = "toofew"
            /\ n > cmd.max_arg => out.kind = "toomany"

\* C3 (as claimed): a line that yields no token (no character, or delimiters
\* only) causes no lookup, no handler invocation and no error state, and the
\* loop goes on.
C3_NoTokenIsNoop ==
    (Initialised /\ IterDone /\ TokenStarts(line.buf) = {}) =>
        /\ ~looked
        /\ call = NoCall
        /\ out = NoOut
        /\ pc = "parsing"
        /\ end_parsing = 0

\* the line read last is the word "end" and nothing else
EndLine == looked /\ token = S_end /\ ArgTokens(line.buf) = 0

\* C4: initialised with do_not_exit = 0, the line "end" invokes the built-in
\* end handler, the stop flag is set, 1 is printed as the result of that line
\* and scp_parse returns; once the stop flag is set no further prompt is
\* printed and no further character is read.
C4_EndStopsLoop ==
    /\ []((IterDone /\ do_not_exit = 0 /\ Initialised /\ EndLine) =>
            /\ call.func = "end_cmd_func"
            /\ end_parsing = 1
            /\ out = [kind |-> "result", n |-> prompt, val |-> 1]
            /\ pc = "caller")
    /\ [][end_parsing = 1 => UNCHANGED <<prompt, line, stream, out, end_parsing>>]_vars

\* C4 witness: "end" was typed, the handler ran and scp_parse has returned
C4_Witness ==
    /\ IterDone /\ do_not_exit = 0 /\ Initialised /\ EndLine
    /\ call.func = "end_cmd_func"
    /\ end_parsing = 1
    /\ pc = "caller"

\* some user command has the name or the abbreviation "end"
UserEnd ==
    \E i \in user_cmds(cmd_list) :
        \/ cmd_list.head[i].cmd_str = S_end
        \/ cmd_list.head[i].abbr_str = S_end

\* what C5 says of the registry, the stop flag and the return of scp_parse
C5_NeverStops ==
    /\ \A i \in 1..Len(cmd_list.head) : cmd_list.head[i].func # "end_cmd_func"
    /\ (last_op.op = "scp_init" /\ last_op.result = "ok") =>
          cmd_list = [head |-> <<help_cmd>>, size |-> 1]
    /\ end_parsing = 0
    /\ last_op.op = "scp_parse" =>
          (last_op.result = "loop" /\ pc \in {"parsing", "crashed"})

\* C5 (as claimed): initialised with do_not_exit # 0, scp_init registers no
\* end descriptor, the stop flag is never set, scp_parse never returns, and
\* the line "end" is reported as an unknown command.
C5_EndDisabled ==
    (Initialised /\ do_not_exit # 0) =>
        /\ C5_NeverStops
        /\ (IterDone /\ EndLine) => (out.kind = "unknown" /\ call = NoCall)

\* C5 (amended): as claimed, but the line "end" is reported as an unknown
\* command only if no user command was registered with the name or the
\* abbreviation "end".
C5_EndDisabledUnlessUserEnd ==
    (Initialised /\ do_not_exit # 0) =>
        /\ C5_NeverStops
        /\ (IterDone /\ EndLine /\ ~UserEnd) =>
              (out.kind = "unknown" /\ call = NoCall /\ command = 0)

\* C5 witness: the end command is disabled and "end" was typed
C5_Witness ==
    /\ Initialised /\ do_not_exit # 0
    /\ IterDone /\ EndLine
    /\ out.kind = "unknown"
    /\ pc = "parsing"

\* the argument count scp_parse collected is outside the bounds of the
\* descriptor it found
ArgcOutside ==
    /\ command # 0
    /\ \/ argc < cmd_list.head[command].min_arg
       \/ argc > cmd_list.head[command].max_arg

\* C6: an iteration of the loop in which the lookup of the first token fails,
\* or the argument count collected is outside [min_arg, max_arg], reports
\* the error, invokes no handler, leaves the stop flag and the registry as
\* they were, and the loop goes on to the next line.
C6_ErrorsDoNotStop ==
    [][(pc = "parsing" /\ looked' /\ token' # NULL
            /\ (command' = 0 \/ ArgcOutside'))
        => /\ out'.kind = IF command' = 0 THEN "unknown"
                          ELSE IF argc' < cmd_list.head[command'].min_arg
                          THEN "toofew" ELSE "toomany"
           /\ out'.n = count
           /\ call' = NoCall
           /\ end_parsing' = end_parsing
           /\ cmd_list' = cmd_list
           /\ pc' = "parsing"
           /\ count' = count + 1]_vars

\* C6 witness: too many arguments were reported and the loop goes on
C6_Witness ==
    /\ IterDone /\ looked
    /\ ArgcOutside
    /\ out.kind = "toomany"
    /\ call = NoCall
    /\ pc = "parsing"

\* the call of scp_add_command made last, on an initialised parser
AddCalled == last_op.op = "scp_add_command" /\ last_op.before.head # <<>>

\* the asserts of scp_add_command that come before the one on the
\* abbreviation: a is rejected by one of them
RejectedEarly(a) ==
    \/ a.min_arg > a.max_arg
    \/ a.cmd_str = NULL
    \/ a.help_str = NULL
    \/ a.func = NULLFUNC
    \/ Len(a.cmd_str) >= 11

\* a breaks one of the rules of C7 (a.abbr_str is a string)
Rejected(a) ==
    \/ RejectedEarly(a)
    \/ Len(a.abbr_str) >= 5
    \/ Len(a.help_str) >= 41

\* the registry after a was appended to the registry before
Appended(before, a) ==
    [head |-> before.head \o <<[cmd_str |-> a.cmd_str, abbr_str |-> a.abbr_str,
                                help_str |-> a.help_str, min_arg |-> a.min_arg,
                                max_arg |-> a.max_arg, func |-> a.func]>>,
     size |-> before.size + 1]

\* C7: on an initialised parser, scp_add_command with an abbreviation string
\* fails by assertion and leaves the list and the size as they were when
\* min_arg > max_arg, the name has 11 or more characters, the abbreviation 5
\* or more, the help text 41 or more, or name, help or handler is NULL (with
\* a null abbreviation too, when min_arg > max_arg, the name is too long or
\* name, help or handler is NULL); otherwise it appends exactly one
\* descriptor.
C7_AddCommandValidates ==
    AddCalled =>
        LET a == last_op.args IN
        /\ (IF a.abbr_str = NULL THEN RejectedEarly(a) ELSE Rejected(a)) =>
              /\ last_op.result = "assert"
              /\ pc = "aborted"
              /\ cmd_list = last_op.before
        /\ (a.abbr_str # NULL /\ ~Rejected(a)) =>
              /\ last_op.result = "ok"
              /\ cmd_list = Appended(last_op.before, a)

\* C7 witness: the longest strings allowed were accepted
C7_Witness ==
    /\ AddCalled
    /\ last_op.result = "ok"
    /\ Len(last_op.args.cmd_str) = 10
    /\ Len(last_op.args.abbr_str) = 4
    /\ Len(last_op.args.help_str) = 40
    /\ pc = "caller"

\* C8 (as claimed): registration with a null abbreviation and otherwise
\* valid parameters succeeds and appends the descriptor.
C8_NullAbbrAccepted ==
    (AddCalled /\ last_op.args.abbr_str = NULL
        /\ ~RejectedEarly(last_op.args) /\ Len(last_op.args.help_str) < 41)
    => /\ last_op.result = "ok"
       /\ cmd_list = Appended(last_op.before, last_op.args)

\* C9 (as claimed): input(strbuff, MAX_INPUT_BUFFER) writes only to
\* strbuff[0 .. MAX_INPUT_BUFFER - 1], and the string it leaves has the
\* length it returns.
C9_WritesInBounds ==
    line # NoLine =>
        /\ \A i \in line.writes : 0 <= i /\ i < 128
        /\ line.length = Len(line.buf)

\* C10: scp_add_command before scp_init fails by assertion and adds nothing;
\* a second scp_init fails by assertion and leaves the registry as it was;
\* the first scp_init succeeds, and after it every valid scp_add_command
\* (with an abbreviation string) succeeds.
C10_InitFirstAndOnce ==
    /\ (last_op.op = "scp_add_command" /\ last_op.before.head = <<>>) =>
          /\ last_op.result = "assert"
          /\ pc = "aborted"
          /\ cmd_list = [head |-> <<>>, size |-> 0]
    /\ (last_op.op = "scp_init" /\ last_op.before.head # <<>>) =>
          /\ last_op.result = "assert"
          /\ pc = "aborted"
          /\ cmd_list = last_op.before
    /\ (last_op.op = "scp_init" /\ last_op.before.head = <<>>) =>
          /\ last_op.result = "ok"
          /\ Initialised
    /\ (AddCalled /\ last_op.args.abbr_str # NULL /\ ~Rejected(last_op.args)) =>
          /\ last_op.result = "ok"
          /\ Len(cmd_list.head) = Len(last_op.before.head) + 1
    /\ ~Initialised => cmd_list.size = 0

\* C10 witness: a second scp_init has failed
C10_Witness ==
    /\ last_op.op = "scp_init"
    /\ last_op.before.head # <<>>
    /\ last_op.result = "assert"
    /\ pc = "aborted"

\* the line read last starts with the token "help" or "h", and the iteration
\* came to its end
HelpLine ==
    /\ Initialised /\ IterDone /\ looked
    /\ token \in {S_help, S_h}
    /\ pc # "crashed"

TokenLine ==
    /\ Initialised /\ IterDone /\ looked
    /\ token # NULL
    /\ pc # "crashed"

\* C12: the descriptor found for a token is the earliest registered among
\* those whose name or abbreviation equals it, and only its handler can be
\* called for the line; so "help" and "h" always reach the built-in help,
\* "end" reaches the built-in end when it is enabled, and a user command that
\* reuses one of these words is not called for it.
C12_EarliestMatchWins ==
    TokenLine =>
        /\ command # 0 => \A j \in Matching(token) : command <= j
        /\ call # NoCall => (command # 0 /\ call.func = cmd_list.head[command].func)
        /\ token \in {S_help, S_h} =>
              (command = 1 /\ call.func \in {NULLFUNC, "help_cmd_func"})
        /\ (token = S_end /\ do_not_exit = 0) =>
              (command = 2 /\ call.func \in {NULLFUNC, "end_cmd_func"})

\* C12 witness: "end" is typed where a user command has the abbreviation
\* "end" too; the built-in end is called
C12_Witness ==
    /\ TokenLine
    /\ token = S_end
    /\ Cardinality(Matching(token)) = 2
    /\ command = 2
    /\ call.func = "end_cmd_func"

\* the built-in descriptors, as scp_init(d) creates them
BuiltIns(d) ==
    IF d = 0
    THEN << [cmd_str |-> S_help, abbr_str |-> S_h, help_str |-> S_help_help,
             min_arg |-> 0, max_arg |-> 0, func |-> "help_cmd_func"],
            [cmd_str |-> S_end, abbr_str |-> S_end, help_str |-> S_end_help,
             min_arg |-> 0, max_arg |-> 0, func |-> "end_cmd_func"] >>
    ELSE << [cmd_str |-> S_help, abbr_str |-> S_h, help_str |-> S_help_help,
             min_arg |-> 0, max_arg |-> 0, func |-> "help_cmd_func"] >>

\* the list is the built-in descriptors followed by user descriptors only,
\* and size is the number of its nodes
RegistryShape ==
    /\ cmd_list.size = Len(cmd_list.head)
    /\ Initialised =>
          LET b == BuiltIns(do_not_exit) IN
          /\ Len(cmd_list.head) >= Len(b)
          /\ SubSeq(cmd_list.head, 1, Len(b)) = b
          /\ \A i \in (Len(b) + 1)..Len(cmd_list.head) :
                cmd_list.head[i].func \notin {"help_cmd_func", "end_cmd_func"}

\* a step that changes the registry is a successful scp_init(d), which makes
\* it the built-in descriptors, or a successful scp_add_command, which adds
\* its descriptor after all the others
RegistryStep ==
    cmd_list' # cmd_list =>
        /\ last_op'.result = "ok"
        /\ last_op'.before = cmd_list
        /\ \/ /\ last_op'.op = "scp_init"
              /\ cmd_list = [head |-> <<>>, size |-> 0]
              /\ cmd_list'.head = BuiltIns(last_op'.args)
           \/ /\ last_op'.op = "scp_add_command"
              /\ cmd_list' = Appended(cmd_list, last_op'.args)

\* a successful call changes the registry
RegistryGrows ==
    (last_op' # last_op /\ last_op'.op \in {"scp_init", "scp_add_command"}
        /\ last_op'.result = "ok")
    => Len(cmd_list'.head) > Len(cmd_list.head)

\* C13: after scp_init(d) and k successful scp_add_command calls the list is
\* help, then end if and only if d = 0, then the k user descriptors in call
\* order; cmd_list.size is the number of nodes; a registration leaves every
\* earlier descriptor as it was.
C13_AppendOrdered ==
    /\ []RegistryShape
    /\ [][RegistryStep /\ RegistryGrows]_vars

\* C13 witness: the second user command was added after help and end
C13_Witness ==
    /\ last_op.op = "scp_add_command"
    /\ last_op.result = "ok"
    /\ Len(last_op.before.head) = 3
    /\ cmd_list.size = 4
    /\ cmd_list.head[4].cmd_str = last_op.args.cmd_str
    /\ cmd_list.head[3] = last_op.before.head[3]

\* C14: the loop of scp_parse does not modify the registry: no iteration
\* changes the list, a descriptor or cmd_list.size, so after every iteration
\* the registry is the one scp_parse was called with (the handlers are
\* help, end, add and sub, none of which registers a command).
C14_LoopReadsOnly ==
    /\ [](IterDone => cmd_list = last_op.before)
    /\ [][pc = "parsing" => cmd_list' = cmd_list]_vars

\* C14 witness: a user handler was called for a line and the registry is the
\* one the loop started with
C14_Witness ==
    /\ IterDone
    /\ pc = "parsing"
    /\ call.func = "add_cmd_func"
    /\ out.kind = "result"
    /\ Len(cmd_list.head) = 4
    /\ cmd_list = last_op.before

\* the stack of kept characters and the echo after one more character c
EditStep(e, c) ==
    IF c = 8 \/ c = 127
    THEN IF e.kept = <<>> THEN e
         ELSE [kept |-> SubSeq(e.kept, 1, Len(e.kept) - 1),
               echo |-> e.echo \o <<8, 32, 8>>]
    ELSE [kept |-> Append(e.kept, c), echo |-> Append(e.echo, c)]

\* the fold of EditStep over cs[lo .. hi], from e
RECURSIVE EditFold(_, _, _, _)
EditFold(e, cs, lo, hi) ==
    IF lo > hi THEN e
    ELSE IF lo = hi THEN EditStep(e, cs[lo])
    ELSE LET mid == (lo + hi) \div 2
         IN  CHOOSE r \in {EditFold(left, cs, mid + 1, hi) :
                               left \in {EditFold(e, cs, lo, mid)}} : TRUE

\* the fold over the whole of cs, from the empty stack
Edited(cs) == EditFold([kept |-> <<>>, echo |-> <<>>], cs, 1, Len(cs))

\* C15: the string input() returns is the fold over a stack of the characters
\* it consumed before the one that ended the line: 8 and 127 remove the
\* character kept last, or do nothing and echo nothing on the empty stack,
\* and every other character is appended and echoed; the value returned is
\* the number of characters kept, and a carriage return or newline that ends
\* the line is not stored.
C15_LineEditing ==
    line # NoLine =>
        LET e == Edited(SubSeq(line.read, 1, Len(line.read) - 1))
        IN  /\ line.buf = e.kept
            /\ line.echo = e.echo
            /\ line.length = Len(line.buf)
            /\ line.length >= 0
            /\ line.consumed = Len(line.read)
            /\ line.last = line.read[Len(line.read)]
            /\ line.length < 128 => line.last \in {10, 13}

\* C15 witness: "enx", backspace, "d", return was read as "end"
C15_Witness ==
    /\ line.read = <<101, 110, 120, 8, 100, 13>>
    /\ line.buf = <<101, 110, 100>>
    /\ line.length = 3
    /\ line.echo = <<101, 110, 120, 8, 32, 8, 100>>

\* C16 (as claimed): once len characters are kept, input() consumes no
\* further character: every character it consumed was kept or took part in
\* the editing, none was read and then dropped.
C16_FullStopsReading ==
    (line # NoLine /\ line.length = 128) =>
        /\ Edited(line.read).kept = line.buf
        /\ line.consumed = 128

\* the k-th token of s: the maximal run of characters other than space, comma
\* and period that starts at the k-th token start
TokenOf(s, k) ==
    LET i == CHOOSE p \in TokenStarts(s) :
                Cardinality({q \in TokenStarts(s) : q < p}) = k - 1
        e == CHOOSE q \in i..Len(s) :
                /\ \A j \in i..q : s[j] \notin DELIMS
                /\ (q = Len(s) \/ s[q + 1] \in DELIMS)
    IN  SubSeq(s, i, e)

\* the tokens of s after the first, in line order
ArgsOf(s) == [k \in 1..ArgTokens(s) |-> TokenOf(s, k + 1)]

\* C17 (as claimed): the first token of a line is its first maximal run of
\* characters other than space, comma and period; when the handler of the
\* matched command is invoked, it is invoked with argc the number of tokens
\* after the first and argv those tokens in line order, and its result is
\* what is printed for the line.
C17_HandlerGetsEveryToken ==
    (TokenLine /\ command # 0) =>
        /\ token = TokenOf(line.buf, 1)
        /\ call # NoCall =>
              /\ call.argc = ArgTokens(line.buf)
              /\ call.argv = ArgsOf(line.buf)
              /\ out = [kind |-> "result", n |-> prompt, val |-> call.ret]

\* C18: the argument loop stores into argv[0 .. MAX_ARGC - 1] only: argc is
\* in 0 .. 6 in every state; for a matched command it is the number of
\* argument tokens of the line or 6, whichever is less, and argv holds
\* exactly the first argc of them; the tokens after the sixth are stored
\* nowhere, and they are not left for the next line either.
C18_ArgvInBounds ==
    /\ argc \in 0..6
    /\ Len(call.argv) = call.argc
    /\ call.argc \in 0..6
    /\ (TokenLine /\ command # 0) =>
          LET n == ArgTokens(line.buf) IN
          /\ argc = IF n < 6 THEN n ELSE 6
          /\ call # NoCall =>
                /\ call.argc = argc
                /\ call.argv = SubSeq(ArgsOf(line.buf), 1, argc)
          /\ line.last \in {10, 13} => stream = <<>>

\* C18 witness: a line with seven arguments; the handler got six
C18_Witness ==
    /\ TokenLine
    /\ ArgTokens(line.buf) = 7
    /\ argc = 6
    /\ call.func = "add_cmd_func"
    /\ Len(call.argv) = 6
    /\ stream = <<>>

\* the line read last is "end" with no argument
EndAlone ==
    /\ TokenStarts(line.buf) # {}
    /\ TokenOf(line.buf, 1) = S_end
    /\ ArgTokens(line.buf) = 0

\* C19: with the end command enabled, a line with a first token stops the
\* loop and sets the stop flag exactly when it is "end" with no argument;
\* "end" with one or more arguments is reported as too many args, leaves the
\* flag at 0 and the loop goes on; a line of length 0 leaves the flag at 0.
C19_OnlyEndStops ==
    (Initialised /\ do_not_exit = 0 /\ IterDone) =>
        /\ (looked /\ token # NULL) =>
              /\ end_parsing = 1 <=> EndAlone
              /\ pc = "caller" <=> EndAlone
              /\ call.func = "end_cmd_func" <=> EndAlone
              /\ (token = S_end /\ ArgTokens(line.buf) >= 1) =>
                    /\ out = [kind |-> "toomany", n |-> prompt, val |-> 0]
                    /\ call = NoCall
                    /\ end_parsing = 0
                    /\ pc = "parsing"
        /\ ~looked => end_parsing = 0

\* C19 witness: "end" with arguments was rejected and the loop goes on
C19_Witness ==
    /\ Initialised /\ do_not_exit = 0 /\ IterDone /\ looked
    /\ token = S_end
    /\ ArgTokens(line.buf) >= 1
    /\ out.kind = "toomany"
    /\ end_parsing = 0
    /\ pc = "parsing"

\* scp_parse is called in this step
ParseCalled ==
    /\ pc = "caller"
    /\ last_op'.op = "scp_parse"
    /\ count' = 1
    /\ cmd_list' = cmd_list /\ line' = line

\* C20: end_parsing is 0 until the first call of the API, it is 0 or 1, a
\* step changes it from 0 to 1 only, and the loop does not run while it is
\* 1; a call of scp_parse made with the flag at 1 prints the command list
\* and returns: it prints no prompt and reads no character.
C20_StopFlagMonotonic ==
    /\ [](/\ end_parsing \in {0, 1}
          /\ last_op = NoOp => end_parsing = 0
          /\ end_parsing = 1 => pc # "parsing")
    /\ [][end_parsing' # end_parsing => (end_parsing = 0 /\ end_parsing' = 1)]_vars
    /\ [][(ParseCalled /\ end_parsing = 1) =>
            /\ last_op'.result = "returned"
            /\ pc' \in {"caller", "crashed"}
            /\ pc' = "caller" =>
                  /\ Len(listing') = Len(cmd_list.head)
                  /\ \A i \in 1..Len(listing') :
                        listing'[i][1] = cmd_list.head[i].cmd_str
            /\ UNCHANGED <<prompt, line, stream, out, call, end_parsing>>]_vars

\* C20 witness: scp_parse was called again after "end" and has returned
C20_Witness ==
    /\ last_op.op = "scp_parse"
    /\ last_op.result = "returned"
    /\ end_parsing = 1
    /\ pc = "caller"
    /\ count = 1
    /\ prompt = 1
    /\ line.buf = S_end
    /\ Len(listing) = Len(cmd_list.head)

\* this step is an iteration of the loop of scp_parse that ran to its end
LoopStep == pc = "parsing" /\ pc' # "crashed"

\* C21: scp_parse enters its loop with the counter at 1; an iteration prints
\* the prompt with the counter as it is; a line of length 0 leaves the
\* counter as it was and reports nothing; a line of any other length is
\* reported (result, too few, too many or unknown) with the n of its prompt
\* and then the counter is one more.
C21_PromptAndReportAgree ==
    /\ [][(pc = "caller" /\ pc' = "parsing") => count' = 1]_vars
    /\ [][LoopStep =>
            /\ prompt' = count
            /\ line'.length = 0 => (count' = count /\ out' = NoOut)
            /\ line'.length # 0 =>
                  /\ count' = count + 1
                  /\ out'.n = prompt'
                  /\ out'.kind \in {"result", "toofew", "toomany", "unknown"}]_vars
    /\ [](IterDone /\ out # NoOut => out.n = prompt /\ count = prompt + 1)

\* C21 witness: the first line was rejected for its argument count with
\* Out[1], and the next prompt is In [2]
C21_Witness ==
    /\ IterDone
    /\ pc = "parsing"
    /\ prompt = 1
    /\ out = [kind |-> "toofew", n |-> 1, val |-> 2]
    /\ count = 2

====
